---------------------------- MODULE Spec2Model ----------------------------
(***************************************************************************)
(* Model of the media handler of next-tinacms-s3.                          *)
(*                                                                         *)
(* The repository holds three copies of the handler:                       *)
(*   "h1"  src/src/handlers.ts, lines 1-228                                *)
(*   "h2"  src/src/handlers.ts, lines 229-428                              *)
(*   "p0"  src/unnamed/part_000                                            *)
(* The copy in use is fixed when the handler is constructed (variable      *)
(* variant); every operator that differs between the copies takes the      *)
(* copy as its first parameter.                                            *)
(*                                                                         *)
(* Strings the code computes with (directories, file names, keys, URLs)    *)
(* are sequences of one-character strings.  Strings the code only passes   *)
(* along (messages, query segments, bucket names) are TLA+ strings.        *)
(***************************************************************************)
EXTENDS Integers, Sequences, FiniteSets

\* ------------------------------------------------------------- bounds
\* Longest object listing (Contents) the backend answers with.
MaxContents == 2
\* Longest media query array of a DELETE request.
MaxMediaLen == 3

\* ------------------------------------------------------ string helpers
\* JavaScript's undefined, where a character string is expected.
Undefined == <<"$undefined">>

\* String.prototype.startsWith at position i (1-based).
StartsWithAt(s, m, i) ==
  /\ i + Len(m) - 1 <= Len(s)
  /\ \A k \in 1..Len(m) : s[i + k - 1] = m[k]

\* String.prototype.endsWith.
EndsWith(s, m) == Len(m) <= Len(s) /\ StartsWithAt(s, m, Len(s) - Len(m) + 1)

\* String.prototype.lastIndexOf for a one-character pattern, 0-based; -1 when absent.
LastIndexOf(s, c) ==
  LET hits == {i \in 1..Len(s) : s[i] = c}
  IN  IF hits = {} THEN -1 ELSE (CHOOSE i \in hits : \A j \in hits : j <= i) - 1

\* String.prototype.substring(from, to), 0-based, to exclusive, negative clamped to 0.
Substring(s, from, to) ==
  LET f == IF from < 0 THEN 0 ELSE from
      t == IF to < 0 THEN 0 ELSE to
      lo == IF f <= t THEN f ELSE t
      hi == IF f <= t THEN t ELSE f
  IN  SubSeq(s, lo + 1, hi)

\* The positions (1-based) where the pattern m starts in s, scanning left to
\* right without overlap, as String.prototype.split finds them.
RECURSIVE SplitPoints(_, _, _)
SplitPoints(s, m, i) ==
  IF i + Len(m) - 1 > Len(s) THEN <<>>
  ELSE IF StartsWithAt(s, m, i) THEN <<i>> \o SplitPoints(s, m, i + Len(m))
  ELSE SplitPoints(s, m, i + 1)


\* ------------------------------------------------- JavaScript values
\* Values whose shape the code inspects (failure values, the limit parameter).
JStr(s) == [t |-> "string", s |-> s]
JNum(n) == [t |-> "number", n |-> n]
JObj(f) == [t |-> "object", f |-> f]
JUndef == [t |-> "undefined"]
JNull == [t |-> "null"]

\* What an operation that may throw gives: a value, or a thrown TypeError.
Returned(v) == [throws |-> FALSE, value |-> v]
Thrown == [throws |-> TRUE, value |-> JUndef]

\* The property read v.name; reading a property of null or undefined throws and is
\* guarded by the callers below.
JGet(v, name) ==
  IF v.t = "object" /\ name \in DOMAIN v.f THEN v.f[name] ELSE JUndef

\* JavaScript truthiness.
Truthy(v) ==
  CASE v.t = "undefined" -> FALSE
    [] v.t = "null" -> FALSE
    [] v.t = "string" -> v.s # ""
    [] v.t = "number" -> v.n # 0
    [] OTHER -> TRUE

\* findErrorMessage: e.message on null or undefined throws a TypeError.
findErrorMessage(e) ==
  IF e.t = "string" THEN Returned(e)
  ELSE IF e.t \in {"null", "undefined"} THEN Thrown
  ELSE IF Truthy(JGet(e, "message")) THEN Returned(JGet(e, "message"))
  ELSE IF Truthy(JGet(e, "error")) /\ Truthy(JGet(JGet(e, "error"), "message"))
       THEN Returned(JGet(JGet(e, "error"), "message"))
  ELSE Returned(JStr("an error occurred"))

\* The failure values the storage client (or the handler's own code) can raise.
NoFields == [x \in {} |-> JUndef]
ErrorValues ==
  { JStr("boom"),
    JObj([message |-> JStr("x")]),
    JObj([error |-> JObj([message |-> JStr("y")])]),
    JObj([message |-> JStr("x"), error |-> JObj([message |-> JStr("y")])]),
    JObj([message |-> JStr(""), error |-> JObj([message |-> JStr("y")])]),
    JObj([error |-> JStr("oops")]),
    JObj(NoFields),
    JNull,
    JUndef }

\* ------------------------------------------------------ configuration
\* S3Config: the fields the handlers read.
config ==
  [ bucket |-> <<"m", "e", "d", "i", "a">>,
    cdn_base_url |-> <<"c", "d", "n">>,
    endpoint |-> <<"h", "t", "t", "p", "s", ":", "/", "/", "s", "3">> ]

\* The three copies of the handler.
Variants == {"h1", "h2", "p0"}

\* ------------------------------------------------------ URL handling
Https == <<"h", "t", "t", "p", "s", ":", "/", "/">>

RECURSIVE PercentEncode(_)
\* The URL parser's percent-encoding, for the characters the model draws: a space
\* becomes %20, every other drawn character is kept.
PercentEncode(s) ==
  IF s = <<>> THEN <<>>
  ELSE (IF Head(s) = " " THEN <<"%", "2", "0">> ELSE <<Head(s)>>)
       \o PercentEncode(Tail(s))

\* The first position (1-based) at or after i of a character of cs in s; Len(s)+1
\* when there is none.
FirstOf(s, cs, i) ==
  LET hits == {k \in i..Len(s) : s[k] \in cs}
  IN  IF hits = {} THEN Len(s) + 1 ELSE CHOOSE k \in hits : \A j \in hits : k <= j

\* new URL(s) for s = "https://" + host + "/" + rest: the path ends at the first
\* "?" or "#"; the model draws no key with a "." or ".." segment or a backslash.
URL(s) ==
  LET hostStart == Len(Https) + 1
      pathStart == FirstOf(s, {"/"}, hostStart)
      pathEnd == FirstOf(s, {"?", "#"}, pathStart)
      host == SubSeq(s, hostStart, pathStart - 1)
      path == PercentEncode(SubSeq(s, pathStart, pathEnd - 1))
      rest == PercentEncode(SubSeq(s, pathEnd, Len(s)))
  IN  [ pathname |-> path, href |-> Https \o host \o path \o rest ]

ImageUpload ==
  <<"/", "i", "m", "a", "g", "e", "/", "u", "p", "l", "o", "a", "d", "/">>

\* transformS3Image: url.split('/image/upload/') has two parts exactly when the
\* marker occurs once.
transformS3Image(url, transformations) ==
  LET at == SplitPoints(url, ImageUpload, 1)
  IN  IF Len(at) = 1
      THEN SubSeq(url, 1, at[1] - 1) \o ImageUpload \o transformations \o <<"/">>
           \o SubSeq(url, at[1] + Len(ImageUpload), Len(url))
      ELSE url

\* The transformation tokens, and the inline placeholder image of part_000.
Thumb125 == <<"w_125,h_125,c_fill,q_auto">>
Thumb75 == <<"w_75,h_75,c_fill,q_auto">>
Placeholder == <<"data:image/png;base64,...">>
DotMp4 == <<".", "m", "p", "4">>

\* The property read file.name of an object descriptor.
Prop(file, name) == IF name \in DOMAIN file THEN file[name] ELSE Undefined

\* encodeURIComponent, for the characters the model draws.
RECURSIVE encodeURIComponent(_)
encodeURIComponent(s) ==
  IF s = <<>> THEN <<>>
  ELSE (CASE Head(s) = "/" -> <<"%", "2", "F">>
          [] Head(s) = " " -> <<"%", "2", "0">>
          [] Head(s) = "?" -> <<"%", "3", "F">>
          [] OTHER -> <<Head(s)>>)
       \o encodeURIComponent(Tail(s))

\* path.basename and path.dirname of a path without trailing separators.
basename(p) == SubSeq(p, LastIndexOf(p, "/") + 2, Len(p))
dirname(p) ==
  LET i == LastIndexOf(p, "/")
  IN  IF i < 0 THEN <<".">> ELSE IF i = 0 THEN <<"/">> ELSE SubSeq(p, 1, i)

\* getS3ToTinaFunc(config)(file): the MediaItem of an object descriptor, or a
\* thrown TypeError.  In h2 path.basename(file.public_id) throws when the descriptor
\* has no public_id, which is the case of every descriptor the backend returns.
S3ToTina(v, cfg, file) ==
  IF v = "h2"
  THEN LET bucketUrl == cfg.endpoint \o <<"/">> \o cfg.bucket \o <<"/">>
           url == bucketUrl \o encodeURIComponent(file.Key)
           public_id == Prop(file, "public_id")
       IN  IF public_id = Undefined
           THEN [throws |-> TRUE, item |-> <<>>]
           ELSE [ throws |-> FALSE,
                  item |->
                    [ id |-> file.Key,
                      filename |-> basename(public_id),
                      directory |-> dirname(public_id),
                      src |-> url,
                      previewSrc |-> transformS3Image(url, Thumb75),
                      type |-> "file" ] ]
  ELSE LET bucketUrl == Https \o cfg.cdn_base_url \o <<"/">>
           filename == file.Key
           url == URL(bucketUrl \o filename)
           directory ==
             Substring(url.pathname, 0, LastIndexOf(url.pathname, "/"))
       IN  [ throws |-> FALSE,
             item |->
               [ id |-> file.Key,
                 filename |-> filename,
                 directory |-> directory,
                 src |-> url.href,
                 previewSrc |->
                   IF v = "p0" /\ EndsWith(filename, DotMp4)
                   THEN Placeholder
                   ELSE transformS3Image(url.href, Thumb125),
                 type |-> "file" ] ]

\* ------------------------------------------------------- the response
\* NextApiResponse: the status code (200 until set), whether the response has been
\* ended, its body, and how many times a body was sent.
NoBody == [kind |-> "none"]
NewResponse == [statusCode |-> 200, ended |-> FALSE, body |-> NoBody, sent |-> 0]

\* res.status(code): sets the status code, sends nothing.
status(rs, code) == [rs EXCEPT !.statusCode = code]

\* res.json(body): serialises the body and ends the response with the status set.
json(rs, body) == [rs EXCEPT !.body = body, !.ended = TRUE, !.sent = @ + 1]

\* res.send(body): the argument is the BODY (a number is serialised as JSON); the
\* status code is left as it is.
send(rs, body) == [rs EXCEPT !.body = body, !.ended = TRUE, !.sent = @ + 1]

\* The bodies the handlers send.
UnauthorizedBody ==
  [kind |-> "object", message |-> "sorry this user is not authorized"]
ListBody(items, offset) == [kind |-> "object", items |-> items, offset |-> offset]
ErrorBody(message) == [kind |-> "object", e |-> message]
NumberBody(n) == [kind |-> "number", n |-> n]
UploadResultBody(result) == [kind |-> "object", upload_result |-> result]
\* JSON.stringify drops a property whose value is undefined.
DeletedBody(public_id) ==
  IF public_id = Undefined THEN [kind |-> "object"]
  ELSE [kind |-> "object", public_id |-> public_id]

\* --------------------------------------------------------- the inputs
EmptyQuotes == <<"\"", "\"">>
Assets == <<"a", "s", "s", "e", "t", "s">>
CatPng == <<"c", "a", "t", ".", "p", "n", "g">>

\* The directory query parameter of a GET.
ListDirectories ==
  { Undefined, <<>>, <<"/">>, EmptyQuotes,
    Assets, <<"/">> \o Assets, Assets \o <<"/">> }
\* The limit query parameter: absent, or the string of the query.
Limits == { JUndef, JStr("10") }
\* The offset query parameter: absent, or a cursor.
Offsets == { Undefined, CatPng }

\* The directory form field of a POST.
UploadDirectories ==
  { Undefined, <<>>, <<"/">> \o Assets \o <<"/">>, Assets \o <<"/">>,
    <<"/", "/">> \o Assets \o <<"/">> }
\* The file part of a POST: absent, or a file with its original name and content.
NoFile == [present |-> FALSE, originalname |-> <<>>, content |-> "none"]
Files ==
  { NoFile,
    [present |-> TRUE, originalname |-> CatPng, content |-> "A"],
    [present |-> TRUE, originalname |-> CatPng, content |-> "B"],
    [present |-> TRUE, originalname |-> <<"b">>, content |-> "C"] }

\* The media query parameter of a DELETE: absent, or an array of segments.
Segments == { <<"i", "g", "n", "o", "r", "e", "d">>, <<"k", "e", "y", "1", "2", "3">> }
NoMedia == [present |-> FALSE, segs |-> <<>>]
Medias ==
  {NoMedia} \cup
  { [present |-> TRUE, segs |-> m] :
      m \in UNION { [1..n -> Segments] : n \in 1..MaxMediaLen } }

\* What the injected authorization callback does: resolves true or false, or rejects.
AuthResults == {"true", "false", "reject"}

NoQuery ==
  [directory |-> Undefined, limit |-> JUndef, offset |-> Undefined, media |-> NoMedia]
NoForm == [directory |-> Undefined, file |-> NoFile]
NoRequest == [method |-> "none", auth |-> "none", query |-> NoQuery, form |-> NoForm]

\* The requests: each carries the parameters its method reads.
RequestsWith(a) ==
  { [method |-> "GET", auth |-> a, form |-> NoForm,
     query |-> [directory |-> d, limit |-> l, offset |-> o, media |-> NoMedia]] :
      d \in ListDirectories, l \in Limits, o \in Offsets }
  \cup
  { [method |-> "POST", auth |-> a, query |-> NoQuery,
     form |-> [directory |-> d, file |-> f]] :
      d \in UploadDirectories, f \in Files }
  \cup
  { [method |-> "DELETE", auth |-> a, form |-> NoForm,
     query |-> [NoQuery EXCEPT !.media = m]] : m \in Medias }
  \cup
  { [method |-> "PUT", auth |-> a, query |-> NoQuery, form |-> NoForm] }
Requests == UNION { RequestsWith(a) : a \in AuthResults }

\* The object keys the backend holds, and the listings it answers with: Contents is
\* absent (no object matched) or a list of descriptors; NextMarker may be absent.
Keys ==
  { CatPng,
    Assets \o <<"/">> \o CatPng,
    <<"d", "/", "v">> \o DotMp4,
    <<"d", "/", "a", " ", "b", "?", "c">>,
    <<"i", "m", "a", "g", "e", "/", "u", "p", "l", "o", "a", "d", "/", "a">> }
Descriptors == { [Key |-> k] : k \in Keys }
NoResponse == [x \in {} |-> <<>>]
ListResponses ==
  LET contents == UNION { [1..n -> Descriptors] : n \in 0..MaxContents }
  IN  { NoResponse }
      \cup { [Contents |-> c] : c \in contents }
      \cup { [Contents |-> c, NextMarker |-> c[Len(c)].Key] :
               c \in contents \ {<<>>} }

\* ------------------------------------------------ the handlers' parts
\* The limit of a listing when the query gives none.
DefaultLimit == 500

\* isAuthorized with the test of the callback's result lost: every request passes.
isAuthorized_unchecked(rq) == rq.auth # "reject"

\* The value config.authorized resolved to, as the handler tests it.
isAuthorized(rq) == rq.auth = "true"

\* listPrefix without the empty-quote token among the root directories.
listPrefix_noQuoteToken(v, dir) ==
  IF dir = Undefined \/ dir = <<>> \/ dir = <<"/">> THEN <<>> ELSE dir

\* listMedia: the Prefix of the listing.  The destructuring default of directory is
\* undefined in h1 and p0 and the empty-quote token in h2.
listPrefix(v, dir) ==
  LET directory == IF dir = Undefined /\ v = "h2" THEN EmptyQuotes ELSE dir
      useRootDirectory ==
        \/ directory = Undefined \/ directory = <<>>
        \/ directory = <<"/">> \/ directory = EmptyQuotes
  IN  IF useRootDirectory THEN <<>> ELSE directory

\* listMedia: the ListObjectsCommand.
listCommand(v, cfg, query) ==
  [ op |-> "ListObjects",
    Bucket |-> IF v = "h2" THEN <<>> ELSE cfg.bucket,
    Prefix |-> listPrefix(v, query.directory),
    MaxKeys |-> IF query.limit = JUndef THEN JNum(DefaultLimit) ELSE query.limit,
    Marker |-> query.offset ]

\* listMedia: the offset of the answer, read from the backend's response.
listOffset(v, response) ==
  IF v = "p0" THEN Prop(response, "NextMarker") ELSE Prop(response, "next_cursor")

\* The TypeError the handler's own code raises.
TypeError == JObj([message |-> JStr("TypeError")])

\* listMedia's catch block: the status is set, then the message is normalised (which
\* may throw, leaving the handler rejected) and sent.
listCatch(rs, e) ==
  LET message == findErrorMessage(e)
  IN  IF message.throws
      THEN [res |-> status(rs, 500), settled |-> "rejected"]
      ELSE [ res |-> json(status(rs, 500), ErrorBody(message.value)),
             settled |-> "resolved" ]

\* listMedia after the backend answered: the descriptors are projected in order and
\* sent with the offset.  h2 maps response.Contents without testing it.
listThen(v, cfg, rs, response) ==
  LET has == "Contents" \in DOMAIN response
      files ==
        IF has
        THEN [i \in 1..Len(response.Contents) |-> S3ToTina(v, cfg, response.Contents[i])]
        ELSE <<>>
      folders == <<>>
      throws == (v = "h2" /\ ~has) \/ \E i \in 1..Len(files) : files[i].throws
  IN  IF throws THEN listCatch(rs, TypeError)
      ELSE [ res |->
               json(rs, ListBody(folders \o [i \in 1..Len(files) |-> files[i].item],
                                 listOffset(v, response))),
             settled |-> "resolved" ]

\* multer's disk storage: the file is written to the temporary directory under its
\* original name.
TmpDir == <<"/", "t", "m", "p">>
stagedPath(file) == TmpDir \o <<"/">> \o file.originalname
StagedPaths == { stagedPath(f) : f \in Files \ {NoFile} }

\* directory.replace(/^\//, ''): one leading slash is removed.
stripLeadingSlash(directory) ==
  IF directory # <<>> /\ Head(directory) = "/" THEN Tail(directory) ELSE directory

\* uploadMedia: whether computing the put's parameters throws (directory or
\* req.file is undefined).
uploadThrows(form) == form.directory = Undefined \/ ~form.file.present

\* uploadMedia: the Key of the put.
uploadKey(v, form) ==
  IF v = "h2"
  THEN stripLeadingSlash(form.directory) \o <<"/">> \o stagedPath(form.file)
  ELSE stripLeadingSlash(form.directory) \o form.file.originalname

\* uploadMedia: the put handed to the storage client.  The body of h1 and p0 is a
\* stream over the staged file, read later; the body of h2 is the multer file object
\* (h2 names PutObjectCommand, which handlers.ts imports at line 16).
putCommand(v, cfg, form) ==
  [ op |-> "PutObject",
    Bucket |-> IF v = "h2" THEN <<>> ELSE cfg.bucket,
    ACL |-> IF v = "h2" THEN "unset" ELSE "public-read",
    Key |-> uploadKey(v, form),
    Body |-> [ from |-> IF v = "h2" THEN "file object" ELSE "stream",
               path |-> stagedPath(form.file),
               data |-> "unread" ] ]

\* deleteKey taking the first segment instead of the second.
deleteKey_firstSegment(media) ==
  IF Len(media.segs) >= 1 THEN media.segs[1] ELSE Undefined

\* deleteAsset: const [, public_id] = media.
deleteKey(media) == IF Len(media.segs) >= 2 THEN media.segs[2] ELSE Undefined

\* deleteAsset: the DeleteObjectCommand.
deleteCommand(cfg, media) ==
  [ op |-> "DeleteObject", Bucket |-> cfg.bucket, Key |-> deleteKey(media) ]

\* ---------------------------------------------------------- the state
\* The handler invocations the model follows.
Reqs == {1, 2}

VARIABLES
  variant,   \* the copy of the handler in use
  pc,        \* where each invocation stands
  req,       \* each invocation's request
  res,       \* each invocation's response
  settled,   \* the promise the handler returned: pending, resolved, rejected
  calls,     \* the commands each invocation handed to the storage client
  backend,   \* what the backend (or the staging) answered each invocation
  ran,       \* the branch of the switch each invocation took
  disk       \* the temporary directory: path -> content

vars == <<variant, pc, req, res, settled, calls, backend, ran, disk>>

NoAnswer == [kind |-> "none", response |-> NoResponse, error |-> JUndef]

Init ==
  /\ variant \in Variants
  /\ pc = [r \in Reqs |-> "idle"]
  /\ req = [r \in Reqs |-> NoRequest]
  /\ res = [r \in Reqs |-> NewResponse]
  /\ settled = [r \in Reqs |-> "pending"]
  /\ calls = [r \in Reqs |-> <<>>]
  /\ backend = [r \in Reqs |-> NoAnswer]
  /\ ran = [r \in Reqs |-> "none"]
  /\ disk = [p \in StagedPaths |-> "absent"]

\* The handler's invocation ends: its promise settles as s and the response is rs.
Finish(r, rs, s) ==
  /\ res' = [res EXCEPT ![r] = rs]
  /\ settled' = [settled EXCEPT ![r] = s]
  /\ pc' = [pc EXCEPT ![r] = "done"]

\* A request arrives and the handler awaits config.authorized(req, res).
Receive(r) ==
  /\ pc[r] = "idle"
  /\ \E rq \in Requests : req' = [req EXCEPT ![r] = rq]
  /\ pc' = [pc EXCEPT ![r] = "auth"]
  /\ UNCHANGED <<variant, res, settled, calls, backend, disk, ran>>

\* The authorization callback rejects: the await throws out of the handler.
AuthRejects(r) ==
  /\ pc[r] = "auth"
  /\ req[r].auth = "reject"
  /\ Finish(r, res[r], "rejected")
  /\ UNCHANGED <<variant, req, calls, backend, disk, ran>>

\* The callback resolved false: 401 with the fixed message, and return.
Unauthorized(r) ==
  /\ pc[r] = "auth"
  /\ req[r].auth # "reject"
  /\ ~isAuthorized(req[r])
  /\ Finish(r, json(status(res[r], 401), UnauthorizedBody), "resolved")
  /\ UNCHANGED <<variant, req, calls, backend, disk, ran>>

\* case 'GET': listMedia runs to its await of client.send(command).
ListStart(r) ==
  /\ pc[r] = "auth"
  /\ isAuthorized(req[r])
  /\ req[r].method = "GET"
  /\ calls' = [calls EXCEPT ![r] = Append(@, listCommand(variant, config, req[r].query))]
  /\ pc' = [pc EXCEPT ![r] = "list_wait"]
  /\ ran' = [ran EXCEPT ![r] = "listMedia"]
  /\ UNCHANGED <<variant, req, res, settled, backend, disk>>

\* The listing call resolves.
ListResolve(r) ==
  /\ pc[r] = "list_wait"
  /\ \E response \in ListResponses :
       LET out == listThen(variant, config, res[r], response)
       IN  /\ backend' = [backend EXCEPT ![r] =
                            [NoAnswer EXCEPT !.kind = "list ok", !.response = response]]
           /\ Finish(r, out.res, out.settled)
  /\ UNCHANGED <<variant, req, calls, disk, ran>>

\* The listing call rejects with some failure value.
ListReject(r) ==
  /\ pc[r] = "list_wait"
  /\ \E e \in ErrorValues :
       LET out == listCatch(res[r], e)
       IN  /\ backend' = [backend EXCEPT ![r] =
                            [NoAnswer EXCEPT !.kind = "list failed", !.error = e]]
           /\ Finish(r, out.res, out.settled)
  /\ UNCHANGED <<variant, req, calls, disk, ran>>

\* case 'POST': uploadMedia runs to its await of multer's upload(req, res).
UploadStart(r) ==
  /\ pc[r] = "auth"
  /\ isAuthorized(req[r])
  /\ req[r].method = "POST"
  /\ pc' = [pc EXCEPT ![r] = "staging"]
  /\ ran' = [ran EXCEPT ![r] = "uploadMedia"]
  /\ UNCHANGED <<variant, req, res, settled, calls, backend, disk>>

\* multer fails: the await is outside every try block, so the handler rejects.
StagingFails(r) ==
  /\ pc[r] = "staging"
  /\ backend' = [backend EXCEPT ![r] = [NoAnswer EXCEPT !.kind = "staging failed"]]
  /\ Finish(r, res[r], "rejected")
  /\ UNCHANGED <<variant, req, calls, disk, ran>>

\* multer has parsed the form and written the file (when there is one).
Staged(r) ==
  /\ pc[r] = "staging"
  /\ LET file == req[r].form.file
     IN  disk' = IF file.present
                 THEN [disk EXCEPT ![stagedPath(file)] = file.content]
                 ELSE disk
  /\ pc' = [pc EXCEPT ![r] = "staged"]
  /\ UNCHANGED <<variant, req, res, settled, calls, backend, ran>>

\* Computing the put's parameters throws: h1 and p0 catch it and res.send(500); h2
\* has no try block and rejects.
UploadThrows(r) ==
  /\ pc[r] = "staged"
  /\ uploadThrows(req[r].form)
  /\ IF variant = "h2"
     THEN Finish(r, res[r], "rejected")
     ELSE Finish(r, send(res[r], NumberBody(500)), "resolved")
  /\ UNCHANGED <<variant, req, calls, backend, disk, ran>>

\* The put is handed to the storage client and awaited.
UploadPut(r) ==
  /\ pc[r] = "staged"
  /\ ~uploadThrows(req[r].form)
  /\ calls' = [calls EXCEPT ![r] = Append(@, putCommand(variant, config, req[r].form))]
  /\ pc' = [pc EXCEPT ![r] = "put_wait"]
  /\ UNCHANGED <<variant, req, res, settled, backend, disk, ran>>

\* The storage client reads the body stream: the content of the staged path now.
StreamBody(r) ==
  /\ pc[r] = "put_wait"
  /\ calls[r][1].Body.from = "stream"
  /\ calls[r][1].Body.data = "unread"
  /\ calls' = [calls EXCEPT ![r][1].Body.data = disk[calls[r][1].Body.path]]
  /\ UNCHANGED <<variant, pc, req, res, settled, backend, disk, ran>>

\* The put resolves: its result is sent as the answer.
PutResolve(r) ==
  /\ pc[r] = "put_wait"
  /\ calls[r][1].Body.from = "stream" => calls[r][1].Body.data # "unread"
  /\ backend' = [backend EXCEPT ![r] = [NoAnswer EXCEPT !.kind = "put ok"]]
  /\ Finish(r, json(res[r], UploadResultBody(calls[r][1].Key)), "resolved")
  /\ UNCHANGED <<variant, req, calls, disk, ran>>

\* The put rejects: h1 and p0 log the error and res.send(500); h2 rejects.
PutReject(r) ==
  /\ pc[r] = "put_wait"
  /\ backend' = [backend EXCEPT ![r] = [NoAnswer EXCEPT !.kind = "put failed"]]
  /\ IF variant = "h2"
     THEN Finish(r, res[r], "rejected")
     ELSE Finish(r, send(res[r], NumberBody(500)), "resolved")
  /\ UNCHANGED <<variant, req, calls, disk, ran>>

\* case 'DELETE' without a media parameter: the destructuring throws.
DeleteThrows(r) ==
  /\ pc[r] = "auth"
  /\ isAuthorized(req[r])
  /\ req[r].method = "DELETE"
  /\ ~req[r].query.media.present
  /\ Finish(r, res[r], "rejected")
  /\ ran' = [ran EXCEPT ![r] = "deleteAsset"]
  /\ UNCHANGED <<variant, req, calls, backend, disk>>

\* case 'DELETE': deleteAsset hands the command to the client, attaches its
\* callbacks and returns without awaiting: the handler's promise resolves here.
DeleteStart(r) ==
  /\ pc[r] = "auth"
  /\ isAuthorized(req[r])
  /\ req[r].method = "DELETE"
  /\ req[r].query.media.present
  /\ calls' = [calls EXCEPT ![r] = Append(@, deleteCommand(config, req[r].query.media))]
  /\ settled' = [settled EXCEPT ![r] = "resolved"]
  /\ pc' = [pc EXCEPT ![r] = "delete_wait"]
  /\ ran' = [ran EXCEPT ![r] = "deleteAsset"]
  /\ UNCHANGED <<variant, req, res, backend, disk>>

\* The delete resolves: the then-callback sends { undefined, public_id }.
DeleteResolve(r) ==
  /\ pc[r] = "delete_wait"
  /\ backend' = [backend EXCEPT ![r] = [NoAnswer EXCEPT !.kind = "delete ok"]]
  /\ res' = [res EXCEPT ![r] = json(@, DeletedBody(deleteKey(req[r].query.media)))]
  /\ pc' = [pc EXCEPT ![r] = "done"]
  /\ UNCHANGED <<variant, req, settled, calls, disk, ran>>

\* The delete rejects: the catch-callback sets the status and sends nothing.
DeleteReject(r) ==
  /\ pc[r] = "delete_wait"
  /\ backend' = [backend EXCEPT ![r] = [NoAnswer EXCEPT !.kind = "delete failed"]]
  /\ res' = [res EXCEPT ![r] = status(@, 500)]
  /\ pc' = [pc EXCEPT ![r] = "done"]
  /\ UNCHANGED <<variant, req, settled, calls, disk, ran>>

\* default: res.end(404) hands the number 404 to ServerResponse.end as the chunk to
\* write; end accepts a string or a buffer only and throws a TypeError.  The status
\* code is never set.
DefaultCase(r) ==
  /\ pc[r] = "auth"
  /\ isAuthorized(req[r])
  /\ req[r].method \notin {"GET", "POST", "DELETE"}
  /\ Finish(r, res[r], "rejected")
  /\ ran' = [ran EXCEPT ![r] = "default"]
  /\ UNCHANGED <<variant, req, calls, backend, disk>>

Step(r) ==
  \/ Receive(r)
  \/ AuthRejects(r)
  \/ Unauthorized(r)
  \/ ListStart(r)
  \/ ListResolve(r)
  \/ ListReject(r)
  \/ UploadStart(r)
  \/ StagingFails(r)
  \/ Staged(r)
  \/ UploadThrows(r)
  \/ UploadPut(r)
  \/ StreamBody(r)
  \/ PutResolve(r)
  \/ PutReject(r)
  \/ DeleteThrows(r)
  \/ DeleteStart(r)
  \/ DeleteResolve(r)
  \/ DeleteReject(r)
  \/ DefaultCase(r)

\* One invocation of the handler, from the request to the end of its last callback.
Next == Step(1)

Spec == Init /\ [][Next]_vars

\* Authorized uploads of one file each, in flight together: the invocations share
\* the storage client and the temporary directory and interleave at their awaits.
UploadRequests ==
  { rq \in RequestsWith("true") :
      /\ rq.method = "POST"
      /\ rq.form.file.present
      /\ rq.form.directory # Undefined }

ReceiveUpload(r) ==
  /\ pc[r] = "idle"
  /\ \E rq \in UploadRequests : req' = [req EXCEPT ![r] = rq]
  /\ pc' = [pc EXCEPT ![r] = "auth"]
  /\ UNCHANGED <<variant, res, settled, calls, backend, disk, ran>>

NextUploads ==
  \E r \in Reqs :
    \/ ReceiveUpload(r)
    \/ UploadStart(r)
    \/ StagingFails(r)
    \/ Staged(r)
    \/ UploadPut(r)
    \/ StreamBody(r)
    \/ PutResolve(r)
    \/ PutReject(r)

SpecUploads == Init /\ [][NextUploads]_vars

\* -------------------------------------------------------- properties
Dispatched(r) == pc[r] \notin {"idle", "auth"}

\* C1: whatever its method, a request whose authorization callback resolved false
\* makes no storage-backend call and stages no upload, and is answered with status
\* 401 and the body { message: 'sorry this user is not authorized' }.
C1_UnauthorizedShortCircuits ==
  \A r \in Reqs :
    req[r].auth = "false" =>
      /\ calls[r] = <<>>
      /\ ran[r] = "none"
      /\ backend[r] = NoAnswer
      /\ pc[r] \in {"auth", "done"}
      /\ \A p \in StagedPaths : disk[p] = "absent"
      /\ pc[r] = "done" =>
           /\ res[r] = [ statusCode |-> 401, ended |-> TRUE, sent |-> 1,
                         body |-> [ kind |-> "object",
                                    message |-> "sorry this user is not authorized" ] ]
           /\ settled[r] = "resolved"

\* C1's case: an unauthorized POST has been answered.
C1_Witness ==
  \E r \in Reqs :
    /\ req[r].auth = "false"
    /\ req[r].method = "POST"
    /\ req[r].form.file.present
    /\ pc[r] = "done"

\* C2: an authorized request is dispatched on its method alone: GET runs listMedia,
\* POST runs uploadMedia, DELETE runs deleteAsset, and any other method is answered
\* with status 404 without a storage-backend call.
C2_DispatchOnMethod ==
  \A r \in Reqs :
    (req[r].auth = "true" /\ Dispatched(r)) =>
      /\ req[r].method = "GET" => ran[r] = "listMedia"
      /\ req[r].method = "POST" => ran[r] = "uploadMedia"
      /\ req[r].method = "DELETE" => ran[r] = "deleteAsset"
      /\ req[r].method \notin {"GET", "POST", "DELETE"} =>
           /\ calls[r] = <<>>
           /\ res[r].statusCode = 404

\* C3: a failure of the backend call, or of the staging of an upload, is caught and
\* answered with status 500, and the handler's invocation does not reject; stated
\* for Upload, one of the three operations it names.
C3_UploadFailuresBecome500 ==
  \A r \in Reqs :
    ( /\ pc[r] = "done"
      /\ backend[r].kind \in {"staging failed", "put failed"} ) =>
      /\ res[r].statusCode = 500
      /\ settled[r] # "rejected"

\* C4: the listing call carries an empty Prefix when the directory parameter is
\* absent, empty, "/" or the empty-quote token, and the directory itself otherwise;
\* MaxKeys is the limit (500 when absent) and Marker the offset as given.
C4_ListCommand ==
  \A r \in Reqs :
    (req[r].method = "GET" /\ req[r].auth = "true" /\ Dispatched(r)) =>
      LET q == req[r].query
      IN  /\ Len(calls[r]) = 1
          /\ calls[r][1].op = "ListObjects"
          /\ calls[r][1].Prefix =
               IF q.directory \in {Undefined, <<>>, <<"/">>, <<"\"", "\"">>}
               THEN <<>> ELSE q.directory
          /\ calls[r][1].MaxKeys = IF q.limit = JUndef THEN JNum(500) ELSE q.limit
          /\ calls[r][1].Marker = q.offset

\* C4's case: a listing was issued for the empty-quote token with no limit.
C4_Witness ==
  \E r \in Reqs :
    /\ req[r].method = "GET"
    /\ req[r].query.directory = EmptyQuotes
    /\ req[r].query.limit = JUndef
    /\ Len(calls[r]) = 1
    /\ calls[r][1].Prefix = <<>>

\* C5: when the listing call succeeds the answer is { items, offset } with one item
\* per returned descriptor, in the backend's order (none when the backend returned
\* no objects), and offset the next cursor the backend returned.
C5_ListAnswer ==
  \A r \in Reqs :
    (pc[r] = "done" /\ backend[r].kind = "list ok") =>
      LET response == backend[r].response
          contents ==
            IF "Contents" \in DOMAIN response THEN response.Contents ELSE <<>>
          body == res[r].body
      IN  /\ res[r].statusCode = 200
          /\ DOMAIN body = {"kind", "items", "offset"}
          /\ Len(body.items) = Len(contents)
          /\ \A i \in 1..Len(contents) : body.items[i].id = contents[i].Key
          /\ body.offset = Prop(response, "NextMarker")

\* C6: an authorized POST with one file and a directory field makes a single put to
\* the configured bucket with ACL public-read, its key the directory without one
\* leading slash followed by the file's original name.
C6_UploadPut ==
  \A r \in Reqs :
    ( /\ req[r].method = "POST" /\ req[r].auth = "true"
      /\ req[r].form.file.present /\ req[r].form.directory # Undefined
      /\ \/ pc[r] = "put_wait"
         \/ pc[r] = "done" /\ backend[r].kind \in {"put ok", "put failed"} ) =>
      /\ Len(calls[r]) = 1
      /\ calls[r][1].op = "PutObject"
      /\ calls[r][1].Bucket = config.bucket
      /\ calls[r][1].ACL = "public-read"
      /\ calls[r][1].Key =
           (IF req[r].form.directory # <<>> /\ Head(req[r].form.directory) = "/"
            THEN Tail(req[r].form.directory) ELSE req[r].form.directory)
           \o req[r].form.file.originalname

\* C7: an authorized DELETE whose media parameter is an array of two or more
\* segments makes one delete-object call on the configured bucket with the second
\* segment as key, and on success is answered 200 with { public_id: that key }.
C7_DeleteSecondSegment ==
  \A r \in Reqs :
    ( /\ req[r].method = "DELETE" /\ req[r].auth = "true"
      /\ Len(req[r].query.media.segs) >= 2
      /\ Dispatched(r) ) =>
      LET key == req[r].query.media.segs[2]
      IN  /\ calls[r] =
               << [op |-> "DeleteObject", Bucket |-> config.bucket, Key |-> key] >>
          /\ backend[r].kind = "delete ok" =>
               res[r] = [ statusCode |-> 200, ended |-> TRUE, sent |-> 1,
                          body |-> [kind |-> "object", public_id |-> key] ]

\* C7's case: media = ["ignored", "key123"] was deleted and answered.
C7_Witness ==
  \E r \in Reqs :
    /\ req[r].method = "DELETE"
    /\ req[r].query.media.segs =
         << <<"i", "g", "n", "o", "r", "e", "d">>, <<"k", "e", "y", "1", "2", "3">> >>
    /\ backend[r].kind = "delete ok"
    /\ pc[r] = "done"
    /\ res[r].ended

\* Whether the value carries a non-empty string under the field.
CarriesText(v, name) ==
  /\ v.t = "object"
  /\ name \in DOMAIN v.f
  /\ v.f[name].t = "string"
  /\ v.f[name].s # ""

\* The display string C8 states for a failure value.
C8_Stated(e) ==
  IF e.t = "string" THEN e
  ELSE IF CarriesText(e, "message") THEN e.f.message
  ELSE IF e.t = "object" /\ "error" \in DOMAIN e.f /\ CarriesText(e.f.error, "message")
       THEN e.f.error.message
  ELSE JStr("an error occurred")

\* C8: the normalisation of a failure value never throws, whatever the value's shape
\* (string, structured error, object without message, null, undefined), and gives
\* the string itself, else the top-level message, else the nested error.message,
\* else 'an error occurred'.
C8_NormalizationTotal ==
  \A r \in Reqs :
    (pc[r] = "done" /\ backend[r].kind = "list failed") =>
      /\ settled[r] = "resolved"
      /\ res[r].body = [kind |-> "object", e |-> C8_Stated(backend[r].error)]

\* The part of a path after its last separator, and the part before it.
LastSegment(path) == SubSeq(path, LastIndexOf(path, "/") + 2, Len(path))
BeforeLastSeparator(path) == SubSeq(path, 1, LastIndexOf(path, "/"))

\* C9: the item of a descriptor has the key as id, the final path segment of the
\* key's public URL as filename, what precedes the last separator of that URL's
\* path as directory, and the type 'file'.
C9_ItemProjection ==
  \A r \in Reqs :
    ( /\ pc[r] = "done" /\ backend[r].kind = "list ok"
      /\ "items" \in DOMAIN res[r].body ) =>
      \A i \in 1..Len(res[r].body.items) :
        LET item == res[r].body.items[i]
            key == backend[r].response.Contents[i].Key
            path == URL(Https \o config.cdn_base_url \o <<"/">> \o key).pathname
        IN  /\ item.id = key
            /\ item.type = "file"
            /\ item.directory = BeforeLastSeparator(path)
            /\ item.filename = LastSegment(path)

\* C10: every request is answered with one completed response, in particular a
\* DELETE whose backend call fails: once the last callback of an authorized DELETE
\* has run, its response has been ended, once.
C10_DeleteAnswered ==
  \A r \in Reqs :
    ( /\ req[r].method = "DELETE" /\ req[r].auth = "true"
      /\ Len(req[r].query.media.segs) >= 2
      /\ pc[r] = "done" ) =>
      /\ res[r].ended
      /\ res[r].sent = 1

\* C11: uploads in flight together are independent: the body the storage client
\* reads for a request's put is the content of that request's own file, never the
\* content another request staged; stated for requests whose target directories
\* (and so whose keys) differ from every other request's.
C11_UploadsIndependent ==
  \A r \in Reqs :
    ( /\ req[r].method = "POST" /\ req[r].auth = "true"
      /\ \A o \in Reqs \ {r} : req[o].form.directory # req[r].form.directory
      /\ Len(calls[r]) = 1
      /\ calls[r][1].Body.from = "stream"
      /\ calls[r][1].Body.data # "unread" ) =>
      calls[r][1].Body.data = req[r].form.file.content

=============================================================================
